---- MODULE Spec2Model ----
(***************************************************************************)
(* Model of the Sipeed NanoKVM integration for Home Assistant:             *)
(*   custom_components/nanokvm/config_flow.py  (setup and discovery flow)  *)
(*   custom_components/nanokvm/select.py       (mouse jiggler select)      *)
(*                                                                         *)
(* Python strings that the code inspects (hosts, mDNS names) are modelled  *)
(* as sequences of one-character strings, so that startswith / endswith    *)
(* and concatenation are computed and not assumed.                         *)
(***************************************************************************)
EXTENDS Integers, Sequences, FiniteSets, TLC

VARIABLES
    \* ---- config flow (config_flow.py) ----
    entries,      \* config entries registered with the host framework (a list)
    pc,           \* per flow: the await the running step handler is suspended at
    result,       \* per flow: the last FlowResult handed to the framework
    data,         \* per flow: self.data
    unique_id,    \* per flow: context["unique_id"] (<<>> is None)
    source,       \* per flow: context["source"], "user" or "zeroconf"
    local,        \* per flow: the locals of the suspended handler (data / user_input)
    calls,        \* per flow: the device validations made by the running / last handler call
    invocations,  \* how many step handlers the framework has invoked so far
    \* ---- select entity (select.py) ----
    mouse_jiggler_state,  \* coordinator.mouse_jiggler_state (None or a state)
    device,               \* the jiggler setting held by the device
    selPc,                \* per caller of async_select_option: its position
    selOption,            \* per caller: the option argument
    clientLog,            \* per caller: the client / coordinator calls it made, in order
    \* ---- pure functions under test ----
    hostTrace,    \* <<h, normalize_host(h), normalize_host(normalize_host(h)), ...>>
    mdnsTrace     \* <<m, normalize_mdns(m), normalize_mdns(normalize_mdns(m)), ...>>

flowVars == <<entries, pc, result, data, unique_id, source, local, calls, invocations>>
selectVars == <<mouse_jiggler_state, device, selPc, selOption, clientLog>>
pureVars == <<hostTrace, mdnsTrace>>
vars == <<entries, pc, result, data, unique_id, source, local, calls, invocations,
          mouse_jiggler_state, device, selPc, selOption, clientLog,
          hostTrace, mdnsTrace>>

(***************************************************************************)
(* Bounds                                                                  *)
(***************************************************************************)
MaxParts == 3       \* a host input is a concatenation of at most MaxParts fragments
MaxLen == 4         \* an mDNS input has at most MaxLen characters
MaxApply == 2       \* how often a normalisation is applied: to the input, then to its result

(***************************************************************************)
(* String helpers (str.startswith, str.endswith)                           *)
(***************************************************************************)
StartsWith(s, p) == Len(s) >= Len(p) /\ SubSeq(s, 1, Len(p)) = p

EndsWith(s, p) == Len(s) >= Len(p) /\ SubSeq(s, Len(s) - Len(p) + 1, Len(s)) = p

Last(s) == s[Len(s)]

HTTP == <<"h", "t", "t", "p", ":", "/", "/">>
HTTPS == <<"h", "t", "t", "p", "s", ":", "/", "/">>
API == <<"/", "a", "p", "i", "/">>
SLASH == <<"/">>
DOT == <<".">>

(***************************************************************************)
(* normalize_host                                                          *)
(***************************************************************************)
AlwaysAppend_normalize_host(host) ==
    LET h1 == IF ~(StartsWith(host, HTTP) \/ StartsWith(host, HTTPS))
              THEN HTTP \o host ELSE host
    IN  IF EndsWith(h1, SLASH) THEN h1 \o <<"a", "p", "i", "/">>
                               ELSE h1 \o API

normalize_host(host) ==
    LET h1 == IF ~(StartsWith(host, HTTP) \/ StartsWith(host, HTTPS))
              THEN HTTP \o host ELSE host
    IN  IF ~EndsWith(h1, API)
        THEN IF EndsWith(h1, SLASH) THEN h1 \o <<"a", "p", "i", "/">>
                                    ELSE h1 \o API
        ELSE h1

(***************************************************************************)
(* normalize_mdns                                                          *)
(***************************************************************************)
AlwaysDot_normalize_mdns(mdns) == mdns \o DOT

normalize_mdns(mdns) ==
    IF ~EndsWith(mdns, DOT) THEN mdns \o DOT ELSE mdns

(***************************************************************************)
(* Config flow: values                                                     *)
(***************************************************************************)
NumFlows == 2       \* config flows that may be in progress at once
MaxInvocations == 4 \* step handlers the framework invokes in one behaviour

Flows == 1 .. NumFlows

DEFAULT_USERNAME == "admin"

DEFAULT_PASSWORD == "admin"

\* hosts typed by the user or announced by zeroconf (discovery_info.hostname)
Hostnames == {<<"a">>, <<"b", ".">>}

\* device_info.mdns as reported by a device
MdnsNames == {<<"a">>, <<"b", ".">>}

Usernames == {"admin", "root"}

Passwords == {"pw"}

\* what the client calls of one validation (authenticate, then get_info) can raise
CallErrors == {"NanoKVMAuthenticationFailure", "ClientError", "NanoKVMError",
               "Exception"}

\* the device / network behaviour during one authenticate + get_info pair:
\* one of the two calls raises (the try block does not tell them apart), or
\* both return and the device reports its mDNS name
Responses ==
    {[raised |-> e, mdns |-> <<>>] : e \in CallErrors}
    \cup {[raised |-> "ok", mdns |-> m] : m \in MdnsNames}

None == <<>>

EmptyDict == <<>>

\* Python dict union  a | b  (the right operand wins)
Merge(a, b) == b @@ a

(***************************************************************************)
(* FlowResult values built by the framework helpers the code calls         *)
(***************************************************************************)
FlowResult(type, step_id, errors, placeholders, reason, title, d) ==
    [type |-> type, step_id |-> step_id, errors |-> errors,
     placeholders |-> placeholders, reason |-> reason, title |-> title, data |-> d]

NotStarted == FlowResult("init", "", EmptyDict, EmptyDict, "", None, EmptyDict)

async_show_form(step_id, errors, placeholders) ==
    FlowResult("form", step_id, errors, placeholders, "", None, EmptyDict)

async_abort(reason) ==
    FlowResult("abort", "", EmptyDict, EmptyDict, reason, None, EmptyDict)

async_create_entry(title, d) ==
    FlowResult("create_entry", "", EmptyDict, EmptyDict, "", title, d)

\* async_step_zeroconf's bare "return": the step yields no FlowResult
ReturnedNone == FlowResult("none", "", EmptyDict, EmptyDict, "", None, EmptyDict)

\* an exception no handler of the step catches leaves the step
Unhandled == FlowResult("error", "", EmptyDict, EmptyDict, "", None, EmptyDict)

(***************************************************************************)
(* validate_input: authenticate, then get_info, exceptions mapped          *)
(***************************************************************************)
Raised(r) == r.raised

validate_input(d, r) ==
    LET e == Raised(r)
    IN  [url      |-> normalize_host(d.host),
         username |-> d.username,
         password |-> d.password,
         exc  |-> IF e = "NanoKVMAuthenticationFailure" THEN "InvalidAuth"
                  ELSE IF e \in {"ClientError", "NanoKVMError"} THEN "CannotConnect"
                  ELSE IF e = "Exception" THEN "Exception" ELSE "none",
         mdns |-> IF e = "ok" THEN normalize_mdns(r.mdns) ELSE None]

\* the entry of the call log for a validation made in step `step`
\* the record of one validation in the call log: what was raised and the mDNS
\* name the device reported
Call(step, r) == [step |-> step, raised |-> Raised(r), reported |-> r.mdns]

\* async_step_user and the probe of async_step_zeroconf do not use the
\* reported name
Discarded(r) == [r EXCEPT !.mdns = None]

(***************************************************************************)
(* Framework state the code consults                                       *)
(***************************************************************************)
\* flows the flow manager holds: a handler is running or a form is shown
InProgress(g) == pc[g] # "idle" \/ result[g].type = "form"

\* async_set_unique_id raises AbortFlow("already_in_progress")
AlreadyInProgress(f, uid) ==
    \E g \in Flows \ {f} : InProgress(g) /\ unique_id[g] = uid

\* the configured entries matched by their host instead of their unique id
ByHost_AlreadyConfigured(uid) ==
    \E i \in 1 .. Len(entries) : normalize_mdns(entries[i].data.host) = uid

\* _abort_if_unique_id_configured raises AbortFlow("already_configured")
AlreadyConfigured(uid) ==
    \E i \in 1 .. Len(entries) : entries[i].unique_id = uid

ConfigEntry(uid, title, d) == [unique_id |-> uid, title |-> title, data |-> d]

Title(mdns) == <<"NanoKVM (">> \o mdns \o <<")">>

\* what a step handler leaves behind when it returns
Outcome(res, d, uid, ents) ==
    [result |-> res, data |-> d, unique_id |-> uid, entries |-> ents]

NoLocals == [user_input |-> EmptyDict, data |-> EmptyDict]

(***************************************************************************)
(* ConfigFlow.add_device                                                   *)
(***************************************************************************)
NoConfiguredCheck_add_device(f, mdns, d) ==
    IF AlreadyInProgress(f, mdns)
    THEN Outcome(async_abort("already_in_progress"), data[f], unique_id[f], entries)
    ELSE Outcome(async_create_entry(Title(mdns), d), data[f], mdns,
                 Append(entries, ConfigEntry(mdns, Title(mdns), d)))

add_device(f, mdns, d) ==
    IF AlreadyInProgress(f, mdns)
    THEN Outcome(async_abort("already_in_progress"), data[f], unique_id[f], entries)
    ELSE IF AlreadyConfigured(mdns)
    THEN Outcome(async_abort("already_configured"), data[f], mdns, entries)
    ELSE Outcome(async_create_entry(Title(mdns), d), data[f], mdns,
                 Append(entries, ConfigEntry(mdns, Title(mdns), d)))

(***************************************************************************)
(* The step handlers after their validation has returned or raised.        *)
(* v is the result of validate_input.  A step called without user_input    *)
(* only shows its form.                                                    *)
(***************************************************************************)
show_user == async_show_form("user", EmptyDict, EmptyDict)

show_auth == async_show_form("auth", EmptyDict, EmptyDict)

show_confirm(d) == async_show_form("confirm", EmptyDict, [name |-> d.host])

SkipConfirm_async_step_user(f, v) ==
    CASE v.exc = "CannotConnect" ->
            Outcome(async_show_form("user", [base |-> "cannot_connect"], EmptyDict),
                    data[f], unique_id[f], entries)
      [] v.exc = "InvalidAuth" ->
            Outcome(show_auth, local[f].user_input, unique_id[f], entries)
      [] v.exc = "Exception" ->
            Outcome(async_show_form("user", [base |-> "unknown"], EmptyDict),
                    data[f], unique_id[f], entries)
      [] OTHER -> add_device(f, v.mdns, local[f].data)

async_step_user(f, v) ==
    CASE v.exc = "CannotConnect" ->
            Outcome(async_show_form("user", [base |-> "cannot_connect"], EmptyDict),
                    data[f], unique_id[f], entries)
      [] v.exc = "InvalidAuth" ->
            Outcome(show_auth, local[f].user_input, unique_id[f], entries)
      [] v.exc = "Exception" ->
            Outcome(async_show_form("user", [base |-> "unknown"], EmptyDict),
                    data[f], unique_id[f], entries)
      [] OTHER ->
            Outcome(show_confirm(local[f].data), local[f].data, unique_id[f], entries)

StaysOnConfirm_async_step_confirm(f, v) ==
    CASE v.exc = "CannotConnect" ->
            Outcome(async_show_form("confirm", [base |-> "cannot_connect"],
                                    [name |-> data[f].host]),
                    data[f], unique_id[f], entries)
      [] v.exc = "InvalidAuth" ->
            Outcome(async_show_form("confirm", [base |-> "invalid_auth"],
                                    [name |-> data[f].host]),
                    data[f], unique_id[f], entries)
      [] v.exc = "Exception" ->
            Outcome(async_show_form("confirm", [base |-> "unknown"],
                                    [name |-> data[f].host]),
                    data[f], unique_id[f], entries)
      [] OTHER -> add_device(f, v.mdns, data[f])

async_step_confirm(f, v) ==
    CASE v.exc = "CannotConnect" ->
            Outcome(async_show_form("confirm", [base |-> "cannot_connect"],
                                    [name |-> data[f].host]),
                    data[f], unique_id[f], entries)
      [] v.exc = "InvalidAuth" ->
            Outcome(show_auth, data[f], unique_id[f], entries)
      [] v.exc = "Exception" ->
            Outcome(async_show_form("confirm", [base |-> "unknown"],
                                    [name |-> data[f].host]),
                    data[f], unique_id[f], entries)
      [] OTHER -> add_device(f, v.mdns, data[f])

WrongCode_async_step_auth(f, v) ==
    CASE v.exc = "CannotConnect" ->
            Outcome(async_show_form("auth", [base |-> "cannot_connect"], EmptyDict),
                    data[f], unique_id[f], entries)
      [] v.exc = "InvalidAuth" ->
            Outcome(async_show_form("auth", [base |-> "cannot_connect"], EmptyDict),
                    data[f], unique_id[f], entries)
      [] v.exc = "Exception" ->
            Outcome(async_show_form("auth", [base |-> "unknown"], EmptyDict),
                    data[f], unique_id[f], entries)
      [] OTHER -> add_device(f, v.mdns, local[f].data)

async_step_auth(f, v) ==
    CASE v.exc = "CannotConnect" ->
            Outcome(async_show_form("auth", [base |-> "cannot_connect"], EmptyDict),
                    data[f], unique_id[f], entries)
      [] v.exc = "InvalidAuth" ->
            Outcome(async_show_form("auth", [base |-> "invalid_auth"], EmptyDict),
                    data[f], unique_id[f], entries)
      [] v.exc = "Exception" ->
            Outcome(async_show_form("auth", [base |-> "unknown"], EmptyDict),
                    data[f], unique_id[f], entries)
      [] OTHER -> add_device(f, v.mdns, local[f].data)

\* the handler of flow f returns: its outcome becomes the flow's state.  A flow
\* that did not end on a form is finished: the flow manager drops the handler
\* object and its context (self.data, context["unique_id"]).
Return(f, o, call) ==
    /\ result'    = [result EXCEPT ![f] = o.result]
    /\ data'      = [data EXCEPT ![f] = IF o.result.type = "form" THEN o.data ELSE EmptyDict]
    /\ unique_id' = [unique_id EXCEPT ![f] = IF o.result.type = "form" THEN o.unique_id ELSE None]
    /\ entries'   = o.entries
    /\ pc'        = [pc EXCEPT ![f] = "idle"]
    /\ local'     = [local EXCEPT ![f] = NoLocals]
    /\ calls'     = [calls EXCEPT ![f] = Append(@, call)]

\* the flow manager creates flow f: flows are created one after the other
Created(f) == source[f] # ""

Creates(f) ==
    /\ ~Created(f)
    /\ \A g \in Flows : g < f => Created(g)

\* the framework invokes a step handler (opens a flow or passes on a submitted form)
Invoke ==
    /\ invocations < MaxInvocations
    /\ invocations' = invocations + 1

\* the handler of flow f suspends in validate_input of step `step`
Await(f, step, user_input, d) ==
    /\ pc'    = [pc EXCEPT ![f] = step]
    /\ local' = [local EXCEPT ![f] = [user_input |-> user_input, data |-> d]]

(***************************************************************************)
(* Config flow: actions.  A step that validates is suspended at the        *)
(* network calls (the ...Submit / ZeroconfInit action) and resumed with    *)
(* the device's response r (the ...Resume action).                         *)
(***************************************************************************)
\* the user opens the flow: async_step_user(None)
UserInit(f) ==
    /\ UNCHANGED <<selectVars, pureVars>>
    /\ Invoke
    /\ Creates(f)
    /\ source' = [source EXCEPT ![f] = "user"]
    /\ result' = [result EXCEPT ![f] = show_user]
    /\ UNCHANGED <<entries, pc, data, unique_id, local, calls>>

\* the user submits the user form: async_step_user({host: h}) up to validate_input
UserSubmit(f, h) ==
    /\ UNCHANGED <<selectVars, pureVars>>
    /\ Invoke
    /\ pc[f] = "idle" /\ result[f].type = "form" /\ result[f].step_id = "user"
    /\ LET user_input == [host |-> h]
       IN  Await(f, "user", user_input,
                 Merge([username |-> DEFAULT_USERNAME, password |-> DEFAULT_PASSWORD],
                       user_input))
    /\ calls' = [calls EXCEPT ![f] = <<>>]
    /\ UNCHANGED <<entries, result, data, unique_id, source>>

RegistersAtOnce_UserResume(f, r) ==
    /\ UNCHANGED <<selectVars, pureVars, invocations>>
    /\ pc[f] = "user"
    /\ LET v == validate_input(local[f].data, r)
       IN  Return(f, IF v.exc = "none"
                     THEN add_device(f, v.mdns, local[f].data)
                     ELSE async_step_user(f, v),
                  Call("user", Discarded(r)))
    /\ UNCHANGED source

UserResume(f, r) ==
    /\ UNCHANGED <<selectVars, pureVars, invocations>>
    /\ pc[f] = "user"
    /\ LET v == validate_input(local[f].data, r)
       IN  Return(f, async_step_user(f, v), Call("user", Discarded(r)))
    /\ UNCHANGED source

\* the user submits the confirm form: async_step_confirm({})
ConfirmSubmit(f) ==
    /\ UNCHANGED <<selectVars, pureVars>>
    /\ Invoke
    /\ pc[f] = "idle" /\ result[f].type = "form" /\ result[f].step_id = "confirm"
    /\ Await(f, "confirm", EmptyDict, data[f])
    /\ calls' = [calls EXCEPT ![f] = <<>>]
    /\ UNCHANGED <<entries, result, data, unique_id, source>>

ConfirmResume(f, r) ==
    /\ UNCHANGED <<selectVars, pureVars, invocations>>
    /\ pc[f] = "confirm"
    /\ LET v == validate_input(data[f], r)
       IN  Return(f, async_step_confirm(f, v), Call("confirm", r))
    /\ UNCHANGED source

\* the stored data overriding the submitted credentials
StoredWins_AuthSubmit(f, u, p) ==
    /\ UNCHANGED <<selectVars, pureVars>>
    /\ Invoke
    /\ pc[f] = "idle" /\ result[f].type = "form" /\ result[f].step_id = "auth"
    /\ LET user_input == [username |-> u, password |-> p]
       IN  Await(f, "auth", user_input, Merge(user_input, data[f]))
    /\ calls' = [calls EXCEPT ![f] = <<>>]
    /\ UNCHANGED <<entries, result, data, unique_id, source>>

\* the user submits the auth form: async_step_auth({username: u, password: p})
AuthSubmit(f, u, p) ==
    /\ UNCHANGED <<selectVars, pureVars>>
    /\ Invoke
    /\ pc[f] = "idle" /\ result[f].type = "form" /\ result[f].step_id = "auth"
    /\ LET user_input == [username |-> u, password |-> p]
       IN  Await(f, "auth", user_input, Merge(data[f], user_input))
    /\ calls' = [calls EXCEPT ![f] = <<>>]
    /\ UNCHANGED <<entries, result, data, unique_id, source>>

AuthResume(f, r) ==
    /\ UNCHANGED <<selectVars, pureVars, invocations>>
    /\ pc[f] = "auth"
    /\ LET v == validate_input(local[f].data, r)
       IN  Return(f, async_step_auth(f, v), Call("auth", r))
    /\ UNCHANGED source

NoConfiguredCheck_ZeroconfInit(f, h) ==
    /\ UNCHANGED <<selectVars, pureVars>>
    /\ Invoke
    /\ Creates(f)
    /\ source' = [source EXCEPT ![f] = "zeroconf"]
    /\ LET uid == normalize_mdns(h)
       IN  IF AlreadyInProgress(f, uid)
           THEN /\ result' = [result EXCEPT ![f] = async_abort("already_in_progress")]
                /\ UNCHANGED <<unique_id, pc, local>>
           ELSE /\ unique_id' = [unique_id EXCEPT ![f] = uid]
                /\ Await(f, "zeroconf", [host |-> h], EmptyDict)
                /\ UNCHANGED result
    /\ calls' = [calls EXCEPT ![f] = <<>>]
    /\ UNCHANGED <<entries, data>>

\* zeroconf announces hostname h: async_step_zeroconf up to the probe
ZeroconfInit(f, h) ==
    /\ UNCHANGED <<selectVars, pureVars>>
    /\ Invoke
    /\ Creates(f)
    /\ source' = [source EXCEPT ![f] = "zeroconf"]
    /\ LET uid == normalize_mdns(h)
       IN  IF AlreadyInProgress(f, uid)
           THEN /\ result' = [result EXCEPT ![f] = async_abort("already_in_progress")]
                /\ UNCHANGED <<unique_id, pc, local>>
           ELSE IF AlreadyConfigured(uid)
                THEN /\ result' = [result EXCEPT ![f] = async_abort("already_configured")]
                     /\ UNCHANGED <<unique_id, pc, local>>
                ELSE /\ unique_id' = [unique_id EXCEPT ![f] = uid]
                     /\ Await(f, "zeroconf", [host |-> h], EmptyDict)
                     /\ UNCHANGED result
    /\ calls' = [calls EXCEPT ![f] = <<>>]
    /\ UNCHANGED <<entries, data>>

\* how the probe of async_step_zeroconf ends: authenticate, then get_info
probe(h, r) ==
    LET e == Raised(r)
    IN  [url      |-> normalize_host(h),
         username |-> DEFAULT_USERNAME,
         password |-> DEFAULT_PASSWORD,
         exc  |-> IF e = "NanoKVMAuthenticationFailure" THEN "InvalidAuth"
                  ELSE IF e \in {"ClientError", "NanoKVMError"} THEN "CannotConnect"
                  ELSE IF e = "Exception" THEN "Exception" ELSE "none",
         mdns |-> None]

\* the probe ends: the rest of async_step_zeroconf, which on anything but a
\* connection error enters async_step_user(user_input=self.data)
ZeroconfResume(f, r) ==
    /\ UNCHANGED <<selectVars, pureVars, invocations>>
    /\ pc[f] = "zeroconf"
    /\ LET h == local[f].user_input.host
           v == probe(h, r)
       IN  /\ calls' = [calls EXCEPT ![f] = Append(@, Call("zeroconf", Discarded(r)))]
           /\ CASE v.exc = "CannotConnect" ->
                     /\ result' = [result EXCEPT ![f] = ReturnedNone]
                     /\ pc' = [pc EXCEPT ![f] = "idle"]
                     /\ local' = [local EXCEPT ![f] = NoLocals]
                     /\ unique_id' = [unique_id EXCEPT ![f] = None]
                     /\ UNCHANGED data
                [] v.exc = "Exception" ->
                     /\ result' = [result EXCEPT ![f] = Unhandled]
                     /\ pc' = [pc EXCEPT ![f] = "idle"]
                     /\ local' = [local EXCEPT ![f] = NoLocals]
                     /\ unique_id' = [unique_id EXCEPT ![f] = None]
                     /\ UNCHANGED data
                [] OTHER ->
                     /\ data' = [data EXCEPT ![f] = [host |-> h]]
                     /\ Await(f, "user", [host |-> h],
                              Merge([username |-> DEFAULT_USERNAME,
                                     password |-> DEFAULT_PASSWORD], [host |-> h]))
                     /\ UNCHANGED <<result, unique_id>>
    /\ UNCHANGED <<entries, source>>

FlowInit ==
    /\ entries   = <<>>
    /\ pc        = [f \in Flows |-> "idle"]
    /\ result    = [f \in Flows |-> NotStarted]
    /\ data      = [f \in Flows |-> EmptyDict]
    /\ unique_id = [f \in Flows |-> None]
    /\ source    = [f \in Flows |-> ""]
    /\ local     = [f \in Flows |-> NoLocals]
    /\ calls     = [f \in Flows |-> <<>>]
    /\ invocations = 0

(***************************************************************************)
(* Select entity (select.py)                                               *)
(***************************************************************************)
NumCallers == 2    \* service calls of async_select_option that may overlap
MaxSelects == 2    \* selections made in one behaviour

Callers == 1 .. NumCallers

RELATIVE == "relative"

ABSOLUTE == "absolute"

\* modes a coordinator state can carry; "other" stands for any value that is
\* not MouseJigglerMode.RELATIVE
Modes == {RELATIVE, ABSOLUTE, "other"}

Options == <<"Disable", "Relative Mode", "Absolute Mode">>

OptionSet == {Options[i] : i \in 1 .. Len(Options)}

JigglerStates == [enabled : BOOLEAN, mode : Modes]

\* SELECTS[0].value_fn
RelativeFirst_value_fn(state) ==
    IF state # None /\ state.mode = RELATIVE THEN "Relative Mode"
    ELSE IF state = None \/ ~state.enabled THEN "Disable"
    ELSE "Absolute Mode"

value_fn(state) ==
    IF state = None \/ ~state.enabled THEN "Disable"
    ELSE IF state.mode = RELATIVE THEN "Relative Mode"
    ELSE "Absolute Mode"

\* the jiggler left enabled whatever the option
AlwaysEnabled_select_option_fn(option) ==
    [enabled |-> TRUE,
     mode    |-> IF option = "Relative Mode" THEN RELATIVE ELSE ABSOLUTE]

\* SELECTS[0].select_option_fn: the arguments of client.set_mouse_jiggler_state
select_option_fn(option) ==
    [enabled |-> option # "Disable",
     mode    |-> IF option = "Relative Mode" THEN RELATIVE ELSE ABSOLUTE]

\* NanoKVMSelect.current_option
current_option == value_fn(mouse_jiggler_state)

Event(op, option, args) == [op |-> op, option |-> option, args |-> args]

RECURSIVE SelectsIn(_)
SelectsIn(log) ==
    IF log = <<>> THEN 0
    ELSE (IF Head(log).op = "select" THEN 1 ELSE 0) + SelectsIn(Tail(log))

RECURSIVE SumOver(_, _)
SumOver(n, S) ==
    IF S = {} THEN 0
    ELSE LET c == CHOOSE x \in S : TRUE IN n[c] + SumOver(n, S \ {c})

\* the selections made so far, over all callers
Selections == SumOver([c \in Callers |-> SelectsIn(clientLog[c])], Callers)

\* what async_select_option does once the write has returned (ok) or raised:
\* the client calls it has then completed, in order
RefreshOnFailure_after_write(c, ok) ==
    IF ok
    THEN << Event("set", selOption[c], select_option_fn(selOption[c])),
            Event("refresh", selOption[c], None) >>
    ELSE << Event("set_failed", selOption[c], select_option_fn(selOption[c])),
            Event("refresh", selOption[c], None) >>

after_write(c, ok) ==
    IF ok
    THEN << Event("set", selOption[c], select_option_fn(selOption[c])),
            Event("refresh", selOption[c], None) >>
    ELSE << Event("set_failed", selOption[c], select_option_fn(selOption[c])) >>

\* async_select_option(option) up to the await of the write
SelectOption(c, option) ==
    /\ UNCHANGED <<flowVars, pureVars>>
    /\ selPc[c] = "idle" /\ Selections < MaxSelects
    /\ selPc' = [selPc EXCEPT ![c] = "write"]
    /\ selOption' = [selOption EXCEPT ![c] = option]
    /\ clientLog' = [clientLog EXCEPT ![c] = Append(@, Event("select", option, None))]
    /\ UNCHANGED <<mouse_jiggler_state, device>>

\* the write returns: the device holds the setting, the refresh is requested
WriteDone(c) ==
    /\ UNCHANGED <<flowVars, pureVars>>
    /\ selPc[c] = "write"
    /\ device' = select_option_fn(selOption[c])
    /\ clientLog' = [clientLog EXCEPT ![c] = @ \o after_write(c, TRUE)]
    /\ selPc' = [selPc EXCEPT ![c] = "refresh"]
    /\ UNCHANGED <<mouse_jiggler_state, selOption>>

\* the write raises: the exception leaves async_select_option
WriteFail(c) ==
    /\ UNCHANGED <<flowVars, pureVars>>
    /\ selPc[c] = "write"
    /\ clientLog' = [clientLog EXCEPT ![c] = @ \o after_write(c, FALSE)]
    /\ selPc' = [selPc EXCEPT ![c] = "idle"]
    /\ selOption' = [selOption EXCEPT ![c] = ""]
    /\ UNCHANGED <<mouse_jiggler_state, device>>

\* coordinator.async_request_refresh() returns
RefreshRequested(c) ==
    /\ UNCHANGED <<flowVars, pureVars>>
    /\ selPc[c] = "refresh"
    /\ selPc' = [selPc EXCEPT ![c] = "idle"]
    /\ selOption' = [selOption EXCEPT ![c] = ""]
    /\ UNCHANGED <<mouse_jiggler_state, device, clientLog>>

\* the coordinator polls: it caches the device's state, or None when the
\* poll could not read it
CoordinatorRefresh(ok) ==
    /\ UNCHANGED <<flowVars, pureVars>>
    /\ mouse_jiggler_state' = IF ok THEN device ELSE None
    /\ mouse_jiggler_state' # mouse_jiggler_state
    /\ UNCHANGED <<device, selPc, selOption, clientLog>>

\* the setting is changed on the device by other means (its own web UI)
DeviceChange(s) ==
    /\ UNCHANGED <<flowVars, pureVars>>
    /\ device' = s /\ s # device
    /\ UNCHANGED <<mouse_jiggler_state, selPc, selOption, clientLog>>

SelectInit ==
    /\ mouse_jiggler_state = None
    /\ device = [enabled |-> FALSE, mode |-> ABSOLUTE]
    /\ selPc = [c \in Callers |-> "idle"]
    /\ selOption = [c \in Callers |-> ""]
    /\ clientLog = [c \in Callers |-> <<>>]

(***************************************************************************)
(* Applying the normalisations to bounded inputs                           *)
(***************************************************************************)
HostParts == {HTTP, HTTPS, API, SLASH, <<"a", "p", "i", "/">>, <<"x">>,
              <<"h", "t", "t", "p">>}

RECURSIVE Concats(_, _)
Concats(parts, n) ==
    IF n = 0 THEN {<<>>}
    ELSE LET shorter == Concats(parts, n - 1)
         IN  shorter \cup {s \o q : s \in shorter, q \in parts}

HostInputs == Concats(HostParts, MaxParts)

MdnsChars == {"a", "l", "."}

MdnsInputs == UNION {[1 .. n -> MdnsChars] : n \in 0 .. MaxLen}

ApplyNormalizeHost ==
    /\ UNCHANGED <<flowVars, selectVars, mdnsTrace>>
    /\ Len(hostTrace) >= 1 /\ Len(hostTrace) <= MaxApply
    /\ hostTrace' = Append(hostTrace, normalize_host(Last(hostTrace)))

ApplyNormalizeMdns ==
    /\ UNCHANGED <<flowVars, selectVars, hostTrace>>
    /\ Len(mdnsTrace) >= 1 /\ Len(mdnsTrace) <= MaxApply
    /\ mdnsTrace' = Append(mdnsTrace, normalize_mdns(Last(mdnsTrace)))

PureIdle == hostTrace = <<>> /\ mdnsTrace = <<>>

(***************************************************************************)
(* Specifications                                                          *)
(***************************************************************************)
Init == FlowInit /\ SelectInit /\ PureIdle

Next ==
    \/ \E f \in Flows : UserInit(f)
    \/ \E f \in Flows, h \in Hostnames : UserSubmit(f, h)
    \/ \E f \in Flows, r \in Responses : UserResume(f, r)
    \/ \E f \in Flows : ConfirmSubmit(f)
    \/ \E f \in Flows, r \in Responses : ConfirmResume(f, r)
    \/ \E f \in Flows, u \in Usernames, p \in Passwords : AuthSubmit(f, u, p)
    \/ \E f \in Flows, r \in Responses : AuthResume(f, r)
    \/ \E f \in Flows, h \in Hostnames : ZeroconfInit(f, h)
    \/ \E f \in Flows, r \in Responses : ZeroconfResume(f, r)

\* the config flows
Spec == Init /\ [][Next]_vars

NextSelect ==
    \/ \E c \in Callers, o \in OptionSet : SelectOption(c, o)
    \/ \E c \in Callers : WriteDone(c)
    \/ \E c \in Callers : WriteFail(c)
    \/ \E c \in Callers : RefreshRequested(c)
    \/ \E ok \in BOOLEAN : CoordinatorRefresh(ok)
    \/ \E s \in JigglerStates : DeviceChange(s)

\* the select entity with its coordinator and device
SpecSelect == Init /\ [][NextSelect]_vars

InitHost == FlowInit /\ SelectInit /\ mdnsTrace = <<>>
            /\ hostTrace \in {<<h>> : h \in HostInputs}

\* normalize_host applied to every bounded input, and again to its result
SpecHost == InitHost /\ [][ApplyNormalizeHost]_vars

InitMdns == FlowInit /\ SelectInit /\ hostTrace = <<>>
            /\ mdnsTrace \in {<<m>> : m \in MdnsInputs}

\* normalize_mdns applied to every bounded input, and again to its result
SpecMdns == InitMdns /\ [][ApplyNormalizeMdns]_vars

(***************************************************************************)
(* Properties of the normalisations (SpecHost, SpecMdns)                   *)
(***************************************************************************)
\* C9: for every input h, normalize_host(h) starts with "http://" or
\* "https://" and ends with "/api/", and applying normalize_host to that
\* result returns it unchanged (idempotence).
C9_NormalizeHostShapeIdempotent ==
    /\ Len(hostTrace) >= 2 =>
          /\ SubSeq(hostTrace[2], 1, 7) = <<"h", "t", "t", "p", ":", "/", "/">>
             \/ SubSeq(hostTrace[2], 1, 8) = <<"h", "t", "t", "p", "s", ":", "/", "/">>
          /\ Len(hostTrace[2]) >= 5
          /\ SubSeq(hostTrace[2], Len(hostTrace[2]) - 4, Len(hostTrace[2]))
                = <<"/", "a", "p", "i", "/">>
    /\ Len(hostTrace) >= 3 => hostTrace[3] = hostTrace[2]

\* an input with a scheme and a trailing slash but no /api/ was normalised twice
C9_Witness ==
    /\ Len(hostTrace) = 3
    /\ hostTrace[1] = HTTPS \o <<"x">> \o SLASH
    /\ hostTrace[3] = HTTPS \o <<"x">> \o API

\* C10: for every input m, normalize_mdns(m) ends with "."; it is m itself
\* when m already ends with "." and m followed by one "." otherwise, so a
\* second application changes nothing.
C10_NormalizeMdnsTrailingDot ==
    /\ Len(mdnsTrace) >= 2 =>
          LET m == mdnsTrace[1]
              n == mdnsTrace[2]
          IN  /\ Len(n) >= 1 /\ n[Len(n)] = "."
              /\ (Len(m) >= 1 /\ m[Len(m)] = ".") => (n = m)
              /\ ~(Len(m) >= 1 /\ m[Len(m)] = ".") => (n = m \o <<".">>)
    /\ Len(mdnsTrace) >= 3 => mdnsTrace[3] = mdnsTrace[2]

\* a name without a trailing dot got one, and a second application kept it
C10_Witness ==
    /\ Len(mdnsTrace) = 3
    /\ mdnsTrace[1] = <<"a", ".", "l">>
    /\ mdnsTrace[2] = <<"a", ".", "l", ".">>

(***************************************************************************)
(* Properties of the select entity (SpecSelect)                            *)
(***************************************************************************)
\* C7: async_select_option writes the option through to the client first and
\* requests the refresh only after that write has completed: a refresh request
\* directly follows a completed set_mouse_jiggler_state call of the same
\* selection (same option, the arguments that option maps to), each selection
\* makes one write and, when it succeeded, one refresh request, and a write
\* that raised is followed by no refresh request.
C7_WriteThenRefresh ==
    \A c \in Callers :
        LET log == clientLog[c]
        IN  /\ \A i \in 1 .. Len(log) :
                 /\ log[i].op = "refresh" =>
                       /\ i > 1 /\ log[i - 1].op = "set"
                       /\ log[i - 1].option = log[i].option
                 /\ log[i].op \in {"set", "set_failed"} =>
                       /\ i > 1 /\ log[i - 1].op = "select"
                       /\ log[i - 1].option = log[i].option
                       /\ log[i].args.enabled = (log[i].option # "Disable")
                       /\ log[i].args.mode =
                             (IF log[i].option = "Relative Mode" THEN "relative"
                                                                 ELSE "absolute")
                 /\ (log[i].op = "select" /\ i > 1) =>
                       log[i - 1].op \in {"refresh", "set_failed"}
                 /\ (log[i].op = "set" /\ (i < Len(log) \/ selPc[c] # "write")) =>
                       /\ i < Len(log) /\ log[i + 1].op = "refresh"
            /\ (selPc[c] = "idle" /\ log # <<>>) =>
                  log[Len(log)].op \in {"refresh", "set_failed"}
            /\ selPc[c] = "refresh" => (log # <<>> /\ log[Len(log)].op = "refresh")

\* one selection was written and refreshed, another one failed in the write
C7_Witness ==
    \E c, d \in Callers :
        /\ selPc[c] = "idle" /\ selPc[d] = "idle"
        /\ Len(clientLog[c]) = 3
        /\ clientLog[c][1].op = "select" /\ clientLog[c][1].option = "Relative Mode"
        /\ clientLog[c][2].op = "set" /\ clientLog[c][2].args.mode = "relative"
        /\ clientLog[c][3].op = "refresh"
        /\ Len(clientLog[d]) = 2
        /\ clientLog[d][2].op = "set_failed"

\* C8: in every coordinator state current_option is one of the three declared
\* options: "Disable" when the mouse-jiggler state is absent or not enabled,
\* "Relative Mode" when enabled with mode RELATIVE, "Absolute Mode" when
\* enabled with any other mode.
C8_CurrentOptionMapping ==
    /\ \E i \in 1 .. 3 : current_option = Options[i]
    /\ (mouse_jiggler_state = None) => current_option = "Disable"
    /\ (mouse_jiggler_state # None) =>
          /\ ~mouse_jiggler_state.enabled => current_option = "Disable"
          /\ (mouse_jiggler_state.enabled /\ mouse_jiggler_state.mode = "relative")
                => current_option = "Relative Mode"
          /\ (mouse_jiggler_state.enabled /\ mouse_jiggler_state.mode # "relative")
                => current_option = "Absolute Mode"

\* the coordinator holds a disabled state whose mode is RELATIVE
C8_Witness ==
    /\ mouse_jiggler_state # None
    /\ ~mouse_jiggler_state.enabled
    /\ mouse_jiggler_state.mode = "relative"
    /\ current_option = "Disable"

(***************************************************************************)
(* Properties of the config flow (Spec)                                    *)
(***************************************************************************)
\* the validation with which the handler of flow f has just returned
LastCall(f) == calls'[f][Len(calls'[f])]

\* the handler of flow f, suspended in step s, returns in this transition
Returns(f, s) == pc[f] = s /\ pc'[f] = "idle"

ConnectionErrors == {"ClientError", "NanoKVMError"}

\* C1: when the user step is submitted with a host, the one validation it makes
\* with the default credentials decides the next step: success shows the
\* confirm form and creates no entry, an authentication failure shows the auth
\* form, a connection failure shows the user form again with
\* errors = {base: cannot_connect}.
C1_UserStepDecides ==
    [][\A f \in Flows :
          Returns(f, "user") =>
             /\ local[f].data.username = DEFAULT_USERNAME
             /\ local[f].data.password = DEFAULT_PASSWORD
             /\ Len(calls'[f]) = Len(calls[f]) + 1
             /\ LastCall(f).step = "user"
             /\ LastCall(f).raised = "ok" =>
                   /\ result'[f].type = "form" /\ result'[f].step_id = "confirm"
                   /\ result'[f].errors = EmptyDict
                   /\ entries' = entries
             /\ LastCall(f).raised = "NanoKVMAuthenticationFailure" =>
                   /\ result'[f].type = "form" /\ result'[f].step_id = "auth"
             /\ LastCall(f).raised \in ConnectionErrors =>
                   /\ result'[f].type = "form" /\ result'[f].step_id = "user"
                   /\ result'[f].errors = [base |-> "cannot_connect"]
                   /\ entries' = entries
      ]_vars

\* one flow is at the confirm form after a successful validation in the user
\* step, another is back at the user form after a connection failure
C1_Witness ==
    \E f, g \in Flows :
        /\ pc[f] = "idle" /\ calls[f] # <<>>
        /\ Last(calls[f]).step = "user" /\ Last(calls[f]).raised = "ok"
        /\ result[f].step_id = "confirm" /\ entries = <<>>
        /\ pc[g] = "idle" /\ calls[g] # <<>>
        /\ Last(calls[g]).step = "user" /\ Last(calls[g]).raised = "ClientError"
        /\ result[g].step_id = "user" /\ result[g].errors = [base |-> "cannot_connect"]

\* C2: a zeroconf discovery of a hostname whose normalized mDNS name (the
\* hostname with a trailing dot) is the unique id of a configured entry aborts:
\* no form, no probe, no entry, the list of entries unchanged.
C2_DiscoveryOfConfiguredAborts ==
    [][\A f \in Flows, h \in Hostnames :
          ( /\ ZeroconfInit(f, h)
            /\ \E i \in 1 .. Len(entries) :
                  entries[i].unique_id = (IF h[Len(h)] = "." THEN h ELSE h \o <<".">>) )
          => /\ result'[f].type = "abort"
             /\ pc'[f] = "idle"
             /\ entries' = entries
      ]_vars

\* a discovery was aborted as already configured before any probe
C2_Witness ==
    \E f \in Flows :
        /\ source[f] = "zeroconf" /\ calls[f] = <<>> /\ pc[f] = "idle"
        /\ result[f].type = "abort" /\ result[f].reason = "already_configured"
        /\ Len(entries) = 1

\* the device-reported mDNS name, normalized to end with a dot
Dotted(m) == IF Len(m) >= 1 /\ m[Len(m)] = "." THEN m ELSE m \o <<".">>

\* C3: an entry is registered only when a confirm or auth submission returns
\* whose own validation (authenticate, then get_info) succeeded; its unique id is
\* the mDNS name the device reported in that validation, with a trailing dot;
\* and when that unique id is already configured the flow aborts and registers
\* nothing.
C3_EntryOnlyAfterOwnValidation ==
    [][ /\ entries' # entries =>
             \E f \in Flows, s \in {"confirm", "auth"} :
                 /\ Returns(f, s)
                 /\ LastCall(f).step = s /\ LastCall(f).raised = "ok"
                 /\ result'[f].type = "create_entry"
                 /\ Len(entries') = Len(entries) + 1
                 /\ SubSeq(entries', 1, Len(entries)) = entries
                 /\ entries'[Len(entries')].unique_id = Dotted(LastCall(f).reported)
        /\ \A f \in Flows, s \in {"confirm", "auth"} :
             ( /\ Returns(f, s) /\ LastCall(f).raised = "ok"
               /\ \E i \in 1 .. Len(entries) :
                     entries[i].unique_id = Dotted(LastCall(f).reported) )
             => result'[f].type = "abort" /\ entries' = entries
      ]_vars

\* one flow registered the device; a second one validated the same device and
\* was aborted as already configured
C3_Witness ==
    \E f, g \in Flows :
        /\ result[f].type = "create_entry" /\ Len(entries) = 1
        /\ Last(calls[f]).raised = "ok"
        /\ entries[1].unique_id = Dotted(Last(calls[f]).reported)
        /\ result[g].type = "abort" /\ result[g].reason = "already_configured"
        /\ calls[g] # <<>> /\ Last(calls[g]).step = "confirm"
        /\ Last(calls[g]).raised = "ok"
        /\ Dotted(Last(calls[g]).reported) = entries[1].unique_id

\* C4 as stated: in every setup step a failed validation creates no entry and
\* is reported on a form with exactly one error code: cannot_connect on the
\* submitted step for a connection failure, invalid_auth on the auth step for an
\* authentication failure in the auth step, unknown on the submitted step for
\* any other exception.
C4_AsStated ==
    [][\A f \in Flows, s \in {"user", "confirm", "auth"} :
          (Returns(f, s) /\ LastCall(f).raised # "ok") =>
             /\ entries' = entries
             /\ result'[f].type = "form"
             /\ Cardinality(DOMAIN result'[f].errors) = 1
             /\ LastCall(f).raised \in ConnectionErrors =>
                   /\ result'[f].step_id = s
                   /\ result'[f].errors = [base |-> "cannot_connect"]
             /\ (LastCall(f).raised = "NanoKVMAuthenticationFailure" /\ s = "auth") =>
                   /\ result'[f].step_id = "auth"
                   /\ result'[f].errors = [base |-> "invalid_auth"]
             /\ LastCall(f).raised = "Exception" =>
                   /\ result'[f].step_id = s
                   /\ result'[f].errors = [base |-> "unknown"]
      ]_vars

\* C4 (amended): in every setup step a failed validation creates no entry and
\* ends on a form; the form carries exactly one error code (cannot_connect on
\* the submitted step for a connection failure, invalid_auth on the auth step
\* for an authentication failure in the auth step, unknown on the submitted
\* step for any other exception), except that an authentication failure in
\* the user or confirm step shows the auth form with no error code.
C4_FailedValidationReported ==
    [][\A f \in Flows, s \in {"user", "confirm", "auth"} :
          (Returns(f, s) /\ LastCall(f).raised # "ok") =>
             /\ entries' = entries
             /\ result'[f].type = "form"
             /\ LastCall(f).raised \in ConnectionErrors =>
                   /\ result'[f].step_id = s
                   /\ result'[f].errors = [base |-> "cannot_connect"]
             /\ (LastCall(f).raised = "NanoKVMAuthenticationFailure" /\ s = "auth") =>
                   /\ result'[f].step_id = "auth"
                   /\ result'[f].errors = [base |-> "invalid_auth"]
             /\ (LastCall(f).raised = "NanoKVMAuthenticationFailure" /\ s # "auth") =>
                   /\ result'[f].step_id = "auth"
                   /\ result'[f].errors = EmptyDict
             /\ LastCall(f).raised = "Exception" =>
                   /\ result'[f].step_id = s
                   /\ result'[f].errors = [base |-> "unknown"]
      ]_vars

\* a flow went from the user step to the auth form on an authentication
\* failure and the submitted credentials were then rejected with invalid_auth
C4_Witness ==
    \E f \in Flows :
        /\ pc[f] = "idle" /\ calls[f] # <<>>
        /\ Last(calls[f]).step = "auth"
        /\ Last(calls[f]).raised = "NanoKVMAuthenticationFailure"
        /\ result[f].type = "form" /\ result[f].step_id = "auth"
        /\ result[f].errors = [base |-> "invalid_auth"]
        /\ entries = <<>>

\* C5: nothing is retried automatically: within one handler invocation (one
\* opening of a flow or one form submission) no attempt against the device is
\* made after an attempt that failed.
C5_NoAutomaticRetry ==
    \A f \in Flows :
        \A i \in 1 .. Len(calls[f]) :
            calls[f][i].raised # "ok" => (i = Len(calls[f]) /\ pc[f] = "idle")

\* C6: in a discovery of a hostname that is not configured, a connection error
\* in the probe ends the step with no form, no error and no entry; an
\* authentication failure in the probe makes the discovery end on the auth form
\* with the discovered hostname as host.
C6_DiscoveryProbeOutcomes ==
    [][\A f \in Flows :
          ( /\ pc[f] \in {"zeroconf", "user"} /\ pc'[f] = "idle"
            /\ calls'[f][1].step = "zeroconf" )
          => /\ entries' = entries
             /\ calls'[f][1].raised \in ConnectionErrors =>
                   /\ result'[f].type = "none"
                   /\ result'[f].errors = EmptyDict
             /\ calls'[f][1].raised = "NanoKVMAuthenticationFailure" =>
                   /\ result'[f].type = "form" /\ result'[f].step_id = "auth"
                   /\ data'[f].host = local[f].user_input.host
      ]_vars

\* C11: whatever the sequence and interleaving of manual and discovered flows,
\* several of them in progress at once for the same device included, no two
\* registered config entries have the same unique id.
C11_UniqueIdsDistinct ==
    \A i, j \in 1 .. Len(entries) :
        i # j => entries[i].unique_id # entries[j].unique_id

\* two discovery flows were at their confirm forms at once and then validated
\* the same device: the first registered it, the second was aborted
C11_Witness ==
    \E f, g \in Flows :
        /\ f # g /\ source[f] = "zeroconf" /\ source[g] = "zeroconf"
        /\ invocations = 4 /\ Len(entries) = 1
        /\ result[f].type = "create_entry" /\ result[g].type = "abort"
        /\ result[g].reason = "already_configured"
        /\ calls[f] # <<>> /\ calls[g] # <<>>
        /\ Last(calls[f]).step = "confirm" /\ Last(calls[g]).step = "confirm"
        /\ Last(calls[f]).reported = Last(calls[g]).reported

\* C12: once a flow started by the discovery of hostname H has registered an
\* entry, every later discovery of H aborts: the unique id the entry was
\* registered under is the identifier the discovery step checks.
C12_RediscoveryAborts ==
    [][\A f, g \in Flows, h \in Hostnames :
          ( /\ source[f] = "zeroconf" /\ result[f].type = "create_entry"
            /\ result[f].data.host = h
            /\ ZeroconfInit(g, h) )
          => /\ result'[g].type = "abort"
             /\ pc'[g] = "idle"
      ]_vars

\* C13: every registered entry's data holds exactly host, username and
\* password, and they are the values the validation that has just succeeded was
\* given: the stored data with the default credentials when the confirm step
\* registers, the stored host with the submitted credentials (which override
\* stored ones) when the auth step registers.
C13_EntryDataIsValidatedData ==
    [][\A f \in Flows :
          (pc[f] # "idle" /\ Returns(f, pc[f]) /\ entries' # entries)
          => LET e == entries'[Len(entries')]
             IN  /\ Len(entries') = Len(entries) + 1
                 /\ pc[f] \in {"confirm", "auth"}
                 /\ LastCall(f).step = pc[f] /\ LastCall(f).raised = "ok"
                 /\ DOMAIN e.data = {"host", "username", "password"}
                 /\ e.data = result'[f].data
                 /\ e.data.host = data[f].host
                 /\ (pc[f] = "confirm" =>
                       /\ e.data = data[f]
                       /\ e.data.username = DEFAULT_USERNAME
                       /\ e.data.password = DEFAULT_PASSWORD)
                 /\ (pc[f] = "auth" =>
                       /\ e.data = local[f].data
                       /\ e.data.username = local[f].user_input.username
                       /\ e.data.password = local[f].user_input.password)
      ]_vars

\* one entry was registered by the confirm step with the default credentials
\* and another by the auth step with submitted credentials that differ from them
C13_Witness ==
    \E f, g \in Flows :
        /\ Len(entries) = 2
        /\ result[f].type = "create_entry" /\ result[g].type = "create_entry"
        /\ calls[f] # <<>> /\ Last(calls[f]).step = "confirm"
        /\ calls[g] # <<>> /\ Last(calls[g]).step = "auth"
        /\ \E i, j \in 1 .. 2 :
              /\ entries[i].data = result[f].data
              /\ entries[i].data.password = DEFAULT_PASSWORD
              /\ entries[j].data = result[g].data
              /\ entries[j].data.password # DEFAULT_PASSWORD

\* C14: the zeroconf step and the user step never create an entry: a discovery
\* whose probe and validation both succeed with the default credentials ends on
\* the confirm form, and entries change only when a submitted confirm or auth
\* step returns.
C14_NoEntryWithoutSubmit ==
    [][/\ \A f \in Flows :
            (pc[f] \in {"idle", "zeroconf", "user"} /\ pc'[f] # pc[f])
            => /\ entries' = entries
               /\ result'[f].type # "create_entry"
       /\ \A f \in Flows :
            ( /\ Returns(f, "user") /\ source[f] = "zeroconf"
              /\ Len(calls'[f]) = 2
              /\ calls'[f][1].step = "zeroconf" /\ calls'[f][1].raised = "ok"
              /\ calls'[f][2].raised = "ok" )
            => /\ result'[f].type = "form" /\ result'[f].step_id = "confirm"
               /\ result'[f].errors = EmptyDict
       /\ (entries' # entries) =>
            \E f \in Flows : pc[f] \in {"confirm", "auth"} /\ pc'[f] = "idle"
      ]_vars

\* a discovered device that accepts the default credentials waits at the
\* confirm form with nothing registered
C14_Witness ==
    \E f \in Flows :
        /\ source[f] = "zeroconf" /\ pc[f] = "idle" /\ entries = <<>>
        /\ result[f].type = "form" /\ result[f].step_id = "confirm"
        /\ Len(calls[f]) = 2
        /\ calls[f][1].step = "zeroconf" /\ calls[f][1].raised = "ok"
        /\ calls[f][2].step = "user" /\ calls[f][2].raised = "ok"

\* C15: a submitted confirm step validates again with the stored data; an
\* authentication failure now moves the flow to the auth form with no entry
\* created and the stored data (the host with it) unchanged; a connection
\* failure keeps the flow on the confirm form with "cannot_connect".
C15_ConfirmRevalidates ==
    [][\A f \in Flows :
          Returns(f, "confirm")
          => /\ Len(calls'[f]) = 1 /\ LastCall(f).step = "confirm"
             /\ local[f].data = data[f]
             /\ (LastCall(f).raised = "NanoKVMAuthenticationFailure" =>
                   /\ result'[f].type = "form" /\ result'[f].step_id = "auth"
                   /\ entries' = entries
                   /\ data'[f] = data[f]
                   /\ data'[f].host = result[f].placeholders.name)
             /\ (LastCall(f).raised \in ConnectionErrors =>
                   /\ result'[f].type = "form" /\ result'[f].step_id = "confirm"
                   /\ result'[f].errors = [base |-> "cannot_connect"]
                   /\ entries' = entries
                   /\ data'[f] = data[f])
      ]_vars

\* the device rejected the stored default credentials at the confirm step: the
\* flow is at the auth form, still holding the host and the defaults
C15_Witness ==
    \E f \in Flows :
        /\ pc[f] = "idle" /\ result[f].type = "form" /\ result[f].step_id = "auth"
        /\ calls[f] # <<>> /\ Last(calls[f]).step = "confirm"
        /\ Last(calls[f]).raised = "NanoKVMAuthenticationFailure"
        /\ DOMAIN data[f] = {"host", "username", "password"}
        /\ data[f].username = DEFAULT_USERNAME
        /\ entries = <<>>

(***************************************************************************)
(* Round trip of the select entity (SpecSelect)                            *)
(***************************************************************************)
\* C16: when the coordinator refreshes to a device state that is the (enabled,
\* mode) pair async_select_option wrote for option o, current_option is o, for
\* each of the three options; and the pair written for "Disable" is
\* enabled = FALSE with mode ABSOLUTE.
C16_SelectRoundTrip ==
    [][/\ \A c \in Callers : \A i \in DOMAIN clientLog'[c] :
            LET e == clientLog'[c][i]
            IN  (e.op = "set" /\ e.option = "Disable")
                => e.args = [enabled |-> FALSE, mode |-> ABSOLUTE]
       /\ ( /\ mouse_jiggler_state' # mouse_jiggler_state
            /\ mouse_jiggler_state' = device' )
          => \A c \in Callers : \A i \in DOMAIN clientLog'[c] :
                LET e == clientLog'[c][i]
                IN  (e.op = "set" /\ e.args = device')
                    => /\ e.option \in OptionSet
                       /\ value_fn(mouse_jiggler_state') = e.option
      ]_vars

\* "Relative Mode" and then "Disable" were written and refreshed: the device
\* and the coordinator hold the pair written last and the entity shows "Disable"
C16_Witness ==
    \E c, d \in Callers :
        /\ c # d /\ selPc[c] = "idle" /\ selPc[d] = "idle"
        /\ Len(clientLog[c]) = 3 /\ Len(clientLog[d]) = 3
        /\ clientLog[c][2].op = "set" /\ clientLog[c][2].option = "Relative Mode"
        /\ clientLog[d][2].op = "set" /\ clientLog[d][2].option = "Disable"
        /\ clientLog[d][3].op = "refresh"
        /\ device = clientLog[d][2].args
        /\ mouse_jiggler_state = device
        /\ current_option = "Disable"

====
